---- MODULE Spec2Model ----
(***************************************************************************)
(* Car-following laws (carfollow.py) and the simulation loop (main.py).    *)
(*                                                                         *)
(* Numbers are exact rationals <<n, d>> in lowest terms with d > 0.  The   *)
(* three non-finite values a floating-point division can produce are       *)
(* <<1, 0>> (inf), <<-1, 0>> (-inf) and <<0, 0>> (nan).                     *)
(***************************************************************************)
EXTENDS Integers, Sequences, FiniteSets, TLC

VARIABLES vehs,       \* veh_list: index -> vehicle object
          snap,       \* vehs as they were when the current tick (or call) started
          tick,       \* number of ticks of the simulation loop started so far
          pos,        \* position of the inner loop: vehicles 0..pos-1 are stepped
          u,          \* control argument of the running tick / call
          sl,         \* speed-limit value of the running tick / v_d of the call
          controlled, \* indices that receive v_d = sl instead of U_I
          obs,        \* last reading of the derived quantities since the last step
          err,        \* exception that ended the run, "none" if none
          numeric,    \* "float" or "float64": the number type the vehicles hold
          phase,      \* "loop" (main.py), "setup" / "called" (a single call)
          log         \* the (u, sl) pairs the loop has consumed, oldest first

vars == <<vehs, snap, tick, pos, u, sl, controlled, obs, err, numeric, phase, log>>

----------------------------------------------------------------------------
(* Arithmetic *)

Abs(n) == IF n < 0 THEN -n ELSE n

Sign(n) == IF n < 0 THEN -1 ELSE IF n > 0 THEN 1 ELSE 0

RECURSIVE GCD(_, _)
GCD(m, n) == IF n = 0 THEN m ELSE GCD(n, m % n)

Norm(n, d) ==
    IF d = 0 THEN <<Sign(n), 0>>
    ELSE LET g == GCD(Abs(n), Abs(d))
         IN  <<Sign(d) * (n \div g), Abs(d) \div g>>

R(n) == <<n, 1>>

Zero == <<0, 1>>

One == <<1, 1>>

PosInf == <<1, 0>>

NegInf == <<-1, 0>>

NaN == <<0, 0>>

IsNaN(p) == p = NaN

IsInf(p) == p[2] = 0 /\ p[1] # 0

IsFinite(p) == p[2] # 0

Neg(p) == <<-p[1], p[2]>>

Add(p, q) ==
    IF IsNaN(p) \/ IsNaN(q) THEN NaN
    ELSE IF IsInf(p) /\ IsInf(q) THEN (IF p = q THEN p ELSE NaN)
    ELSE IF IsInf(p) THEN p
    ELSE IF IsInf(q) THEN q
    ELSE Norm(p[1] * q[2] + q[1] * p[2], p[2] * q[2])

Sub(p, q) == Add(p, Neg(q))

Mul(p, q) ==
    IF IsNaN(p) \/ IsNaN(q) THEN NaN
    ELSE IF IsInf(p) \/ IsInf(q)
         THEN <<Sign(p[1]) * Sign(q[1]), 0>>
    ELSE Norm(p[1] * q[1], p[2] * q[2])

\* p < q; every comparison with nan is false
Less(p, q) ==
    IF IsNaN(p) \/ IsNaN(q) THEN FALSE
    ELSE IF IsInf(p) \/ IsInf(q)
         THEN (IF p = q THEN FALSE ELSE p = NegInf \/ q = PosInf)
    ELSE p[1] * q[2] < q[1] * p[2]

\* Python's min(p, q): the first argument unless the second is smaller
Min(p, q) == IF Less(q, p) THEN q ELSE p

\* Python's max(p, q): the first argument unless the second is greater
Max(p, q) == IF Less(p, q) THEN q ELSE p

IsZero(p) == p = Zero

\* p / q for q # 0
Quot(p, q) ==
    IF IsNaN(p) \/ IsNaN(q) THEN NaN
    ELSE IF IsInf(q) THEN (IF IsInf(p) THEN NaN ELSE Zero)
    ELSE IF IsInf(p) THEN <<Sign(p[1]) * Sign(q[1]), 0>>
    ELSE Norm(p[1] * q[2], p[2] * q[1])

\* p / 0 on numpy.float64 operands: inf, -inf or nan (a RuntimeWarning, no exception)
QuotByZero(p) == <<Sign(p[1]), 0>>

RECURSIVE Pow(_, _)
Pow(p, n) == IF n = 0 THEN One ELSE Mul(p, Pow(p, n - 1))

ISqrt(n) == CHOOSE r \in 0..n : r * r = n

IsSquare(n) == \E r \in 0..n : r * r = n

\* math.sqrt on a non-negative rational whose root is rational
Sqrt(p) == <<ISqrt(p[1]), ISqrt(p[2])>>

----------------------------------------------------------------------------
(* Bounds of the model *)

\* vehicles in the chain of main.py (N there is 100)
NVeh == 3

\* ticks of the simulation loop that are explored (main.py runs 360)
MaxTicks == 3

----------------------------------------------------------------------------
(* Constants *)

\* vehicles.py: sample time, jam density, shockwave speed, free-flow speed
DT == One

K_X == <<1, 2>>

W_I == R(2)

U_I == R(4)

\* carfollow.py: Tampere coefficients, IDM parameters
C_1 == <<1, 2>>

C_2 == <<1, 2>>

C_3 == <<1, 2>>

B == <<3, 2>>

DELTA == 4

None == -1

----------------------------------------------------------------------------
(* Vehicle (vehicles.py): kinematic state and its one-step integration *)

\* Vehicle.__init__ followed by the law's constructor
NewVehicle(beh, x0, v0, lead, slots, c1, c2, c3) ==
    [behavior |-> beh, x_t |-> x0, v_t |-> v0, a |-> Zero, control |-> Zero,
     veh_lead |-> lead, slots |-> slots, c1 |-> c1, c2 |-> c2, c3 |-> c3,
     delta |-> 0, v0 |-> Zero]

\* Vehicle.v: speed after one sample time under the held acceleration
v(vs, i) == Add(vs[i].v_t, Mul(vs[i].a, DT))

\* Vehicle.x: position after one sample time
x(vs, i) == Add(vs[i].x_t, Mul(v(vs, i), DT))

\* Vehicle.shift_state: the integrated state becomes the stored state
shift_state(vs, i) ==
    [vs EXCEPT ![i].x_t = x(vs, i), ![i].v_t = v(vs, i)]

\* Vehicle.set_leader
set_leader(vs, i, j) == [vs EXCEPT ![i].veh_lead = j]

----------------------------------------------------------------------------
(* CarFollowLaw: derived quantities *)

HasLeader(vs, i) == vs[i].veh_lead # None

w == W_I

k_x == K_X

s0 == Quot(One, k_x)

T == DT

vl(vs, i) == vs[vs[i].veh_lead].v_t

dv(vs, i) == IF HasLeader(vs, i) THEN Sub(vl(vs, i), vs[i].v_t) ELSE Zero

xl(vs, i) == vs[vs[i].veh_lead].x_t

\* s measured from the origin when there is no leader
s_from_origin(vs, i) ==
    IF HasLeader(vs, i) THEN Sub(xl(vs, i), vs[i].x_t) ELSE Neg(vs[i].x_t)

s(vs, i) == IF HasLeader(vs, i) THEN Sub(xl(vs, i), vs[i].x_t) ELSE Zero

----------------------------------------------------------------------------
(* Results of a computation that may raise *)

Ok(val) == [err |-> "none", val |-> val]

Raise(e) == [err |-> e, val |-> NaN]

\* p / q where one operand at least is a vehicle's number: ZeroDivisionError on
\* Python floats, a non-finite value on numpy.float64
Divide(p, q, num) ==
    IF ~IsZero(q) THEN Ok(Quot(p, q))
    ELSE IF num = "float" THEN Raise("ZeroDivisionError")
    ELSE Ok(QuotByZero(p))

----------------------------------------------------------------------------
(* Tampere *)

s_d(vs, i) == Add(s0, Mul(Quot(One, Mul(w, k_x)), v(vs, i)))

cong_acc(vs, i) ==
    Add(Mul(vs[i].c1, dv(vs, i)), Mul(vs[i].c2, Sub(s(vs, i), s_d(vs, i))))

free_acc(vs, i, vd) == Mul(vs[i].c3, Sub(vd, vs[i].v_t))

Tampere_acel(vs, i, vd) == Min(cong_acc(vs, i), free_acc(vs, i, vd))

\* car_following without the leader test
Tampere_car_following_no_test(vs, i, vd) ==
    [vehs |-> [vs EXCEPT ![i].a = Tampere_acel(vs, i, vd)], err |-> "none"]

Tampere_car_following(vs, i, vd) ==
    IF HasLeader(vs, i)
    THEN [vehs |-> [vs EXCEPT ![i].a = Tampere_acel(vs, i, vd)], err |-> "none"]
    ELSE [vehs |-> [vs EXCEPT ![i].a = vs[i].control], err |-> "none"]

----------------------------------------------------------------------------
(* IDM *)

\* IDM.b: the getter returns the module constant whatever the setter stored
IDM_b(vs, i) == B

\* IDM.delta, IDM.v0: the getters read slots that only the setters fill
IDM_delta(vs, i) ==
    IF "_delta" \in vs[i].slots THEN Ok(vs[i].delta) ELSE Raise("AttributeError")

IDM_v0(vs, i) ==
    IF "_v0" \in vs[i].slots THEN Ok(vs[i].v0) ELSE Raise("AttributeError")

IDM_set_delta(vs, i, value) ==
    [vs EXCEPT ![i].delta = value, ![i].slots = @ \cup {"_delta"}]

IDM_set_v0(vs, i, value) ==
    [vs EXCEPT ![i].v0 = value, ![i].slots = @ \cup {"_v0"}]

\* IDM.s_star: s0 + max(0, v*T + (v*dv) / (2*sqrt(a*b)))
s_star(vs, i, num) ==
    LET ab == Mul(vs[i].a, IDM_b(vs, i))
    IN  IF Less(ab, Zero) THEN Raise("ValueError")
        ELSE LET q == Divide(Mul(v(vs, i), dv(vs, i)), Mul(R(2), Sqrt(ab)), num)
             IN  IF q.err # "none" THEN q
                 ELSE Ok(Add(s0, Max(Zero, Add(Mul(v(vs, i), T), q.val))))

\* acel with the spacing term added instead of subtracted
IDM_acel_plus(vs, i, vd, num) ==
    LET v0r == IDM_v0(vs, i)
        r1 == Divide(v(vs, i), v0r.val, num)
        dr == IDM_delta(vs, i)
        ss == s_star(vs, i, num)
        r2 == Divide(ss.val, s(vs, i), num)
    IN  IF v0r.err # "none" THEN v0r
        ELSE IF r1.err # "none" THEN r1
        ELSE IF dr.err # "none" THEN dr
        ELSE IF ss.err # "none" THEN ss
        ELSE IF r2.err # "none" THEN r2
        ELSE Ok(Mul(vs[i].a, Add(Sub(One, Pow(r1.val, dr.val)), Pow(r2.val, 2))))

\* IDM.acel: a * (1 - (v / v0) ** delta - (s_star() / s) ** 2), evaluated left
\* to right; vd is not used
IDM_acel(vs, i, vd, num) ==
    LET v0r == IDM_v0(vs, i)
    IN  IF v0r.err # "none" THEN v0r
        ELSE LET r1 == Divide(v(vs, i), v0r.val, num)
             IN  IF r1.err # "none" THEN r1
                 ELSE LET dr == IDM_delta(vs, i)
                      IN  IF dr.err # "none" THEN dr
                          ELSE LET ss == s_star(vs, i, num)
                               IN  IF ss.err # "none" THEN ss
                                   ELSE LET r2 == Divide(ss.val, s(vs, i), num)
                                        IN  IF r2.err # "none" THEN r2
                                            ELSE Ok(Mul(vs[i].a,
                                                     Sub(Sub(One, Pow(r1.val, dr.val)),
                                                         Pow(r2.val, 2))))

\* car_following that also integrates the speed
IDM_car_following_integrating(vs, i, vd, num) ==
    IF HasLeader(vs, i)
    THEN LET r == IDM_acel(vs, i, vd, num)
         IN  IF r.err # "none" THEN [vehs |-> vs, err |-> r.err]
             ELSE [vehs |-> [vs EXCEPT ![i].a = r.val, ![i].v_t = v(vs, i)],
                   err |-> "none"]
    ELSE [vehs |-> [vs EXCEPT ![i].a = vs[i].control], err |-> "none"]

IDM_car_following(vs, i, vd, num) ==
    IF HasLeader(vs, i)
    THEN LET r == IDM_acel(vs, i, vd, num)
         IN  IF r.err # "none" THEN [vehs |-> vs, err |-> r.err]
             ELSE [vehs |-> [vs EXCEPT ![i].a = r.val], err |-> "none"]
    ELSE [vehs |-> [vs EXCEPT ![i].a = vs[i].control], err |-> "none"]

----------------------------------------------------------------------------
(* CarFollowLaw.step_evolution *)

car_following(vs, i, vd, num) ==
    IF vs[i].behavior = "IDM" THEN IDM_car_following(vs, i, vd, num)
    ELSE Tampere_car_following(vs, i, vd)

\* the control parameter defaults to 0 when the caller omits it
ControlArg(arg) == IF arg.given THEN arg.val ELSE Zero

Given(val) == [given |-> TRUE, val |-> val]

Omitted == [given |-> FALSE, val |-> Zero]

set_control(vs, i, control) == [vs EXCEPT ![i].control = control]

\* step_evolution computing the acceleration before it advances the memory
step_evolution_law_first(vs, i, vd, control, num) ==
    LET r == car_following(set_control(vs, i, control), i, vd, num)
    IN  [vehs |-> shift_state(r.vehs, i), err |-> r.err]

step_evolution(vs, i, vd, control, num) ==
    car_following(set_control(shift_state(vs, i), i, control), i, vd, num)

----------------------------------------------------------------------------
(* main.py: scenario and simulation loop *)

Vehs == 0..(NVeh - 1)

\* initial spacing (W_I + U_I) / (W_I * K_X)
Spacing0 == Quot(Add(W_I, U_I), Mul(W_I, K_X))

\* X0 = flip(arange(N) * spacing): the first vehicle is the most advanced
X0(i) == Mul(R(NVeh - 1 - i), Spacing0)

\* veh_list after the two setup loops
veh_list ==
    LET made == [i \in Vehs |->
                    NewVehicle("Tampere", X0(i), U_I, None,
                               {"_c1", "_c2", "_c3"}, C_1, C_2, C_3)]
    IN  [i \in Vehs |-> IF i = 0 THEN made[i] ELSE set_leader(made, i, i - 1)[i]]

\* values the signal lead_acc takes
LeadAcc == {R(-4), Zero, R(2)}

\* values the signal vit_control takes
VitControl == {R(2), U_I}

NoObs == [veh |-> None, s |-> Zero, dv |-> Zero]

Init ==
    /\ vehs = veh_list
    /\ snap = veh_list
    /\ tick = 0
    /\ pos = NVeh
    /\ u = Given(Zero)
    /\ sl = U_I
    /\ controlled \in SUBSET Vehs
    /\ obs = NoObs
    /\ err = "none"
    /\ numeric = "float64"
    /\ phase = "loop"
    /\ log = <<>>

\* v_d of the call for vehicle i: sl for the speed-controlled ones, else U_I
DesiredSpeed(i, limit) == IF i \in controlled THEN limit ELSE U_I

\* one call veh.step_evolution(v_d, control) of the inner loop
LoopCall(i, acc, limit) ==
    LET r == step_evolution(vehs, i, DesiredSpeed(i, limit), ControlArg(acc), numeric)
    IN  /\ vehs' = r.vehs
        /\ err' = r.err
        /\ pos' = i + 1
        /\ obs' = NoObs

\* the outer loop takes the next (u, sl) and the inner loop steps the first vehicle
TickHead ==
    /\ phase = "loop" /\ err = "none"
    /\ pos = NVeh /\ tick < MaxTicks
    /\ \E acc \in LeadAcc, limit \in VitControl :
          /\ u' = Given(acc)
          /\ sl' = limit
          /\ log' = Append(log, [u |-> acc, sl |-> limit])
          /\ LoopCall(0, Given(acc), limit)
    /\ tick' = tick + 1
    /\ snap' = vehs
    /\ UNCHANGED <<controlled, numeric, phase>>

\* the inner loop steps the next vehicle
TickNext ==
    /\ phase = "loop" /\ err = "none"
    /\ pos < NVeh
    /\ LoopCall(pos, u, sl)
    /\ UNCHANGED <<snap, tick, u, sl, controlled, numeric, phase, log>>

\* between two ticks (or after a call) a caller reads the derived quantities s and dv of a vehicle
ReadDerived ==
    /\ err = "none"
    /\ phase # "setup"
    /\ phase = "loop" => pos = NVeh
    /\ \E i \in DOMAIN vehs : obs' = [veh |-> i, s |-> s(vehs, i), dv |-> dv(vehs, i)]
    /\ UNCHANGED <<vehs, snap, tick, pos, u, sl, controlled, err, numeric, phase, log>>

Next == TickHead \/ TickNext \/ ReadDerived

Spec == Init /\ [][Next]_vars

----------------------------------------------------------------------------
(* A single call of step_evolution on a law object in an arbitrary state:   *)
(* vehicle 1 is the object under test, vehicle 0 the vehicle ahead of it.   *)

Behaviors == {"IDM", "Tampere"}

Numerics == {"float", "float64"}

\* stored speed and held acceleration of the object before the call
SpeedSet == {Zero, One, U_I}

AccSet == {Neg(B), Zero, B, R(6)}

\* spacing and relative speed the law finds when it computes the acceleration
GapSet == {R(-1), Zero, R(2), R(6)}

RelSpeedSet == {R(-1), Zero, One}

\* keyword arguments c1, c2, c3 of Tampere(...)
CoefSet == {<<Zero, C_2, C_3>>, <<C_1, C_2, C_3>>, <<C_1, One, Zero>>}

\* values given to the setters of IDM
V0Set == {Zero, U_I, R(8)}

DeltaSet == {2, DELTA}

\* arguments of the call
DesiredSet == {R(2), U_I}

ControlSet == {Given(R(-4)), Given(R(2)), Omitted}

\* the two objects, the one ahead placed so that the law finds gap and rel
Pair(beh, lead, v0, a0, gap, rel, cf) ==
    LET slots == IF beh = "Tampere" THEN {"_c1", "_c2", "_c3"} ELSE {}
        me == [NewVehicle(beh, Zero, v0, lead, slots, cf[1], cf[2], cf[3])
                  EXCEPT !.a = a0]
        ahead == NewVehicle("Tampere", Add(x(<<me>>, 1), gap), Add(v(<<me>>, 1), rel),
                            None, {"_c1", "_c2", "_c3"}, C_1, C_2, C_3)
    IN  (0 :> ahead) @@ (1 :> me)

InitLaw ==
    /\ \E beh \in Behaviors, lead \in {None, 0}, v0 \in SpeedSet, a0 \in AccSet,
          gap \in GapSet, rel \in RelSpeedSet, cf \in CoefSet :
          /\ beh = "IDM" => cf = <<C_1, C_2, C_3>>
          /\ lead = None => gap = Zero /\ rel = Zero
          /\ vehs = Pair(beh, lead, v0, a0, gap, rel, cf)
    /\ snap = vehs
    /\ tick = 0
    /\ pos = 1
    /\ u = Given(Zero)
    /\ sl = U_I
    /\ controlled = {}
    /\ obs = NoObs
    /\ err = "none"
    /\ numeric \in Numerics
    /\ phase = "setup"
    /\ log = <<>>

\* veh.v0 = value
SetV0 ==
    /\ phase = "setup" /\ vehs[1].behavior = "IDM"
    /\ \E value \in V0Set : vehs' = IDM_set_v0(vehs, 1, value)
    /\ snap' = vehs'
    /\ UNCHANGED <<tick, pos, u, sl, controlled, obs, err, numeric, phase, log>>

\* veh.delta = value
SetDelta ==
    /\ phase = "setup" /\ vehs[1].behavior = "IDM"
    /\ \E value \in DeltaSet : vehs' = IDM_set_delta(vehs, 1, value)
    /\ snap' = vehs'
    /\ UNCHANGED <<tick, pos, u, sl, controlled, obs, err, numeric, phase, log>>

\* veh.step_evolution(v_d, control) or veh.step_evolution(v_d)
Call ==
    /\ phase = "setup"
    /\ \E vd \in DesiredSet, arg \in ControlSet :
          LET r == step_evolution(vehs, 1, vd, ControlArg(arg), numeric)
          IN  /\ vehs' = r.vehs
              /\ err' = r.err
              /\ u' = arg
              /\ sl' = vd
    /\ snap' = vehs
    /\ phase' = "called"
    /\ obs' = NoObs
    /\ UNCHANGED <<tick, pos, controlled, numeric, log>>

NextLaw == SetV0 \/ SetDelta \/ Call \/ ReadDerived

SpecLaw == InitLaw /\ [][NextLaw]_vars

----------------------------------------------------------------------------
(* Properties of a single call (specification SpecLaw) *)

Called == phase = "called"

\* the object as car_following found it: memory advanced, control recorded,
\* acceleration still the one held before the call
Mid == set_control(shift_state(snap, 1), 1, IF u.given THEN u.val ELSE Zero)

\* C1: a vehicle with no leader leaves step_evolution(v_d, control=X) with
\* a = X whatever v_d and the prior state are, and with a = 0 when control
\* is omitted.
C1_LeaderlessPassThrough ==
    (Called /\ ~HasLeader(vehs, 1)) =>
        /\ err = "none"
        /\ vehs[1].a = (IF u.given THEN u.val ELSE Zero)

C1_Witness ==
    /\ Called /\ ~HasLeader(vehs, 1)
    /\ vehs[1].behavior = "IDM"
    /\ ~u.given /\ sl # U_I
    /\ snap[1].a # Zero /\ vehs[1].a = Zero

\* C9: step_evolution advances the memory with the acceleration held before
\* the call, then records control, then lets the law set the acceleration from
\* the advanced state; on return the control field is the control argument.
C9_StepOrder ==
    Called =>
        /\ vehs[1].x_t = Add(snap[1].x_t, Mul(Add(snap[1].v_t, Mul(snap[1].a, DT)), DT))
        /\ vehs[1].v_t = Add(snap[1].v_t, Mul(snap[1].a, DT))
        /\ vehs[1].control = (IF u.given THEN u.val ELSE Zero)
        /\ err = "none" => vehs[1].a = car_following(Mid, 1, sl, numeric).vehs[1].a

C9_Witness ==
    /\ Called /\ err = "none"
    /\ HasLeader(vehs, 1)
    /\ snap[1].a # Zero
    /\ vehs[1].a # snap[1].a
    /\ vehs[1].control # snap[1].control

\* C10: car_following writes the acceleration of its own vehicle and nothing
\* else: stored position and speed, leader reference, law parameters and the
\* other vehicle are as they were when car_following started.
C10_OnlyAcceleration ==
    Called => vehs = [Mid EXCEPT ![1].a = vehs[1].a]

C10_Witness ==
    /\ Called /\ err = "none"
    /\ HasLeader(vehs, 1)
    /\ vehs[1].behavior = "IDM"
    /\ vehs[1].a # Mid[1].a
    /\ vehs[1].slots = {"_v0", "_delta"}

IDMFollower == vehs[1].behavior = "IDM" /\ HasLeader(vehs, 1)

TampereFollower == vehs[1].behavior = "Tampere" /\ HasLeader(vehs, 1)

\* min(c1*(vl - own) + c2*(gap - (s0 + own/(w*k_x))), c3*(vd - own)) for one
\* reading `own` of the vehicle's speed
TampereFormula(own) ==
    LET gamma == Quot(One, Mul(W_I, K_X))
        desired == Add(Quot(One, K_X), Mul(gamma, own))
        cong == Add(Mul(vehs[1].c1, Sub(vehs[0].v_t, own)),
                    Mul(vehs[1].c2, Sub(Sub(vehs[0].x_t, vehs[1].x_t), desired)))
        free == Mul(vehs[1].c3, Sub(sl, own))
    IN  IF Less(free, cong) THEN free ELSE cong

\* C4: a Tampere vehicle with a leader leaves step_evolution with
\* a = min(c1*dv + c2*(s - s_d), c3*(v_d - ownSpeed)), one and the same own
\* speed (the stored one or the integrated one) entering dv, s_d and the
\* free-flow term.
C4_TampereOneOwnSpeed ==
    (Called /\ TampereFollower) =>
        \/ vehs[1].a = TampereFormula(Mid[1].v_t)
        \/ vehs[1].a = TampereFormula(v(Mid, 1))

\* the acceleration the IDM formula gives with maximum acceleration amax,
\* desired speed vd and exponent dlt, in the state car_following found
IDMFormula(amax, vd, dlt) ==
    LET root == Sqrt(Mul(amax, B))
        star == Add(Quot(One, K_X),
                    Max(Zero, Add(Mul(v(Mid, 1), DT),
                                  Quot(Mul(v(Mid, 1), dv(Mid, 1)), Mul(R(2), root)))))
    IN  Mul(amax, Sub(Sub(One, Pow(Quot(v(Mid, 1), vd), dlt)),
                      Pow(Quot(star, s(Mid, 1)), 2)))

\* C6: an IDM vehicle with a leader leaves step_evolution(v_d, control) with
\* a = a_max*(1 - (v/v_d)^delta - (s_star/s)^2), v_d being the argument of the
\* call and delta the exponent the law holds from construction (DELTA unless
\* set otherwise); stated where the formula is defined (s # 0, a_max*b > 0).
C6_IDMUsesDesiredSpeedArgument ==
    (Called /\ IDMFollower /\ ~IsZero(s(Mid, 1)) /\ Less(Zero, snap[1].a)) =>
        /\ err = "none"
        /\ vehs[1].a = IDMFormula(snap[1].a, sl,
                                  IF "_delta" \in snap[1].slots THEN snap[1].delta ELSE DELTA)

\* the equilibrium of C5: own speed equal to the desired speed v0 (> 0), spacing
\* equal to s_star(), and acel returned a value
Equilibrium ==
    /\ Called /\ IDMFollower /\ err = "none"
    /\ Less(Zero, Mid[1].v0)
    /\ v(Mid, 1) = Mid[1].v0
    /\ s_star(Mid, 1, numeric).err = "none"
    /\ s(Mid, 1) = s_star(Mid, 1, numeric).val

\* C5 as stated: at the equilibrium the acceleration acel computes is exactly 0.
C5_EquilibriumZero == Equilibrium => vehs[1].a = Zero

\* C5 amended: at the equilibrium the value acel computes is the negative of
\* the acceleration the vehicle held before the call (so it is 0 only when that
\* acceleration was 0).
C5_EquilibriumNegatesHeld == Equilibrium => vehs[1].a = Neg(snap[1].a)

C5_Witness ==
    /\ Equilibrium
    /\ Less(Zero, snap[1].a)
    /\ vehs[1].a = Neg(snap[1].a)

\* C8: when an IDM vehicle with a leader has spacing 0 as step_evolution
\* computes its acceleration, the step ends in an exception and the
\* acceleration is not replaced.  Stated for a vehicle whose other quantities
\* are regular (v0 > 0 and delta set, held acceleration > 0), so that the zero
\* spacing is the only degenerate term.
C8_ZeroSpacingRaises ==
    (/\ Called /\ IDMFollower /\ IsZero(s(Mid, 1))
     /\ Mid[1].slots = {"_v0", "_delta"} /\ Less(Zero, Mid[1].v0)
     /\ Less(Zero, Mid[1].a)) =>
        /\ err # "none"
        /\ vehs[1].a = snap[1].a

----------------------------------------------------------------------------
(* Properties of the simulation loop (specification Spec) *)

Followers == {i \in Vehs : HasLeader(vehs, i)}

TickDone == phase = "loop" /\ pos = NVeh

\* the head vehicle was never asked to brake
NoBrake == \A n \in 1..Len(log) : ~Less(log[n].u, Zero)

\* every call so far was given v_d = U_I
NoLimit == controlled = {} \/ \A n \in 1..Len(log) : log[n].sl = U_I

NoCollisionWithoutBraking ==
    (TickDone /\ NoBrake /\ NoLimit) => \A i \in Followers : Less(Zero, s(vehs, i))

\* the vehicles after the calls of one tick are made in the order `order`
RECURSIVE RunTick(_, _, _, _)
RunTick(vs, order, acc, limit) ==
    IF order = <<>> THEN vs
    ELSE RunTick(step_evolution(vs, Head(order), DesiredSpeed(Head(order), limit),
                                ControlArg(acc), numeric).vehs,
                 Tail(order), acc, limit)

Orders == {o \in [1..NVeh -> Vehs] : \A m, n \in 1..NVeh : o[m] = o[n] => m = n}

\* C3: within a tick every follower's call reads its leader's position and speed
\* as the previous tick left them, and the state the tick produces is the same for
\* every order of the calls.
C3_OrderIndependent ==
    /\ (phase = "loop" /\ tick > 0) =>
          \A i \in Followers :
              i < pos => /\ xl(vehs, i) = snap[vehs[i].veh_lead].x_t
                         /\ vl(vehs, i) = snap[vehs[i].veh_lead].v_t
    /\ (TickDone /\ tick > 0) =>
          \A o \in Orders : RunTick(snap, o, u, sl) = vehs

====
